---- MODULE Spec2Model ----
(***************************************************************************)
(* A model of agcr (src/src/main.rs): for every timed report of the        *)
(* configuration, fetch two records per student concurrently, evaluate the *)
(* GPA flags, sort the students by the highest flag priority they meet,    *)
(* render the template and write "<template>.html".                        *)
(*                                                                         *)
(* GPAs are f64 in the source; only their order is used (>=, <), so they   *)
(* are modelled by integers.                                               *)
(***************************************************************************)
EXTENDS Integers, Sequences, FiniteSets, TLC

VARIABLES
    config,               \* Config.timed_reports (main.rs:140), fixed for the run
    db,                   \* the remote data source: student id -> GPA it holds
    remote,               \* the ways the remote data source may answer in this run
    files,                \* the working directory: file name -> content
    pc,                   \* the position of main
    k,                    \* index of the timed report the loop of main is at
    reqs,                 \* per student of the batch: its gpa and info request
    tasks,                \* per student of the batch: its fetch future
    completed,            \* history: the order in which the fetch futures finished
    results,              \* what fetch_students_gpa_and_info returned
    student_flags,        \* main.rs:144
    renderable_students,  \* main.rs:173
    rendered_template,    \* main.rs:185
    issued,               \* history: every request sent, in order
    documents             \* history: the text rendered for each report so far

vars == <<config, db, remote, files, pc, k, reqs, tasks, completed, results,
          student_flags, renderable_students, rendered_template, issued, documents>>

(***************************************************************************)
(* Bounds of the model.                                                    *)
(***************************************************************************)
MaxReports == 2     \* timed reports in the configuration
MaxIds == 2         \* student_ids of the timed report in SpecBatch
MaxId == 2          \* distinct student identifiers the remote knows
MaxFetchIds == 1    \* student_ids of the timed report in SpecFetch
MaxStudents == 3    \* student_ids of the timed report in SpecAssemble
MaxFlags == 2       \* flags of the timed report in SpecAssemble

Ids == 1..MaxId
Gpas == {0, 1, 2}       \* the GPAs the remote may hold in SpecAssemble
Priorities == {0, 5, 9} \* priority of a flag in SpecAssemble
Templates == {"weekly", "monthly"}
ReportIdLists == {<<1>>, <<2, 1>>}  \* student_ids of a timed report in Spec

\* Sequences over S of length lo..hi.
SeqsOf(S, lo, hi) == UNION {[1..n -> S] : n \in lo..hi}

Range(s) == {s[i] : i \in DOMAIN s}

(***************************************************************************)
(* Configuration (Flag, TimedReport).  report_label, every and to are      *)
(* never read by main and are left out.                                    *)
(***************************************************************************)
Flag(lo, hi, p, l) == [min_gpa |-> lo, max_gpa |-> hi, priority |-> p, level |-> l]

TimedReport(t, f, s) == [template |-> t, flags |-> f, student_ids |-> s]

\* The rules of the end-to-end scenario, on the integer GPA scale.
DefaultFlags == <<Flag(0, 1, 1, "low"), Flag(1, 2, 5, "mid"), Flag(2, 3, 9, "high")>>

(***************************************************************************)
(* The remote data source.                                                 *)
(***************************************************************************)
\* Mutant of get_urls_for_id: the info url does not depend on the id.
get_urls_fixed_info(id) ==
    <<[endpoint |-> "gpas", id |-> id], [endpoint |-> "students", id |-> 1]>>

get_urls_for_id(id) ==
    <<[endpoint |-> "gpas", id |-> id], [endpoint |-> "students", id |-> id]>>

GpaResponse(g) == [gpa_grade_reporting_total |-> g]

NameResponse(f, l) == [first_name |-> f, last_name |-> l]

\* The record the remote holds for a url, and a second, different record that
\* it may send after it.
RemoteRecord(url) ==
    IF url.endpoint = "gpas"
    THEN GpaResponse(db[url.id])
    ELSE NameResponse(<<"first", url.id>>, <<"last", url.id>>)

OtherRecord(url) ==
    IF url.endpoint = "gpas"
    THEN GpaResponse(db[url.id] + 1)
    ELSE NameResponse(<<"first", 0>>, <<"last", 0>>)

\* A response body: whether it deserializes into a Vec of the record type,
\* and the Vec if it does.
Body(url, shape) ==
    CASE shape = "malformed" -> [parses |-> FALSE, list |-> <<>>]
      [] shape = "empty"     -> [parses |-> TRUE, list |-> <<>>]
      [] shape = "one"       -> [parses |-> TRUE, list |-> <<RemoteRecord(url)>>]
      [] shape = "many"      -> [parses |-> TRUE,
                                 list |-> <<RemoteRecord(url), OtherRecord(url)>>]

NoBody == [parses |-> FALSE, list |-> <<>>]

Shapes == {"malformed", "empty", "one", "many"}
Statuses == {200, 404}

\* How the remote may behave on one request: the transport fails, or a
\* response with a status and a body arrives.
TransportFailure == [transport |-> FALSE, status |-> 0, shape |-> "none"]
Answer(status, shape) == [transport |-> TRUE, status |-> status, shape |-> shape]

AllBehaviours == {TransportFailure} \cup {Answer(s, sh) : s \in Statuses, sh \in Shapes}
BasicBehaviours == {TransportFailure, Answer(200, "one")}

\* A request (the future of client.get(url).send() and its response).
Inflight(url) == [st |-> "inflight", url |-> url, status |-> 0, body |-> NoBody]

Outcome(url, b) ==
    IF b.transport
    THEN [st |-> "response", url |-> url, status |-> b.status, body |-> Body(url, b.shape)]
    ELSE [st |-> "error", url |-> url, status |-> 0, body |-> NoBody]

Cancelled(r) == IF r.st = "inflight" THEN [r EXCEPT !.st = "cancelled"] ELSE r

(***************************************************************************)
(* The fetch of one student: the async block of                            *)
(* fetch_students_gpa_and_info.  The errors are the values boxed into      *)
(* Box<dyn Error>: a reqwest::Error of send(), a reqwest::Error of json(), *)
(* or the message of the empty case.                                       *)
(***************************************************************************)
NoPair == <<>>
NoError == [type |-> "none", kind |-> "none", at |-> "none", id |-> 0]

RequestError(at, id) == [type |-> "reqwest::Error", kind |-> "Request", at |-> at, id |-> id]
DecodeError(at, id) == [type |-> "reqwest::Error", kind |-> "Decode", at |-> at, id |-> id]
MessageError(id) ==
    [type |-> "String", kind |-> "Failed to fetch data for student ID", at |-> "match", id |-> id]

Pending == [st |-> "pending", val |-> NoPair, err |-> NoError]
Dropped == [st |-> "dropped", val |-> NoPair, err |-> NoError]
Ok(v) == [st |-> "ok", val |-> v, err |-> NoError]
Err(e) == [st |-> "err", val |-> NoPair, err |-> e]

\* Mutant of TryJoinReady: both requests have settled (join! for try_join!).
JoinReady(gpa, info) ==
    /\ gpa.st \in {"error", "response"}
    /\ info.st \in {"error", "response"}

\* try_join!(gpa_future, info_future) is ready: either send() failed, or both
\* responses arrived.
TryJoinReady(gpa, info) ==
    \/ gpa.st = "error"
    \/ info.st = "error"
    \/ gpa.st = "response" /\ info.st = "response"

\* Mutant of FirstOfBoth: the last record of each list is taken.
LastOfBoth(id, gpa_resp, info_resp) ==
    IF gpa_resp # <<>> /\ info_resp # <<>>
    THEN Ok(<<info_resp[Len(info_resp)], gpa_resp[Len(gpa_resp)]>>)
    ELSE Err(MessageError(id))

\* match (gpa_resp.into_iter().next(), info_resp.into_iter().next())
FirstOfBoth(id, gpa_resp, info_resp) ==
    IF gpa_resp # <<>> /\ info_resp # <<>>
    THEN Ok(<<Head(info_resp), Head(gpa_resp)>>)
    ELSE Err(MessageError(id))

\* Mutant of FetchOne: a body that does not parse counts as an empty list
\* (unwrap_or_default for ?).
FetchOneDefaulting(id, gpa, info) ==
    IF gpa.st = "error" THEN Err(RequestError("gpa", id))
    ELSE IF info.st = "error" THEN Err(RequestError("info", id))
    ELSE FirstOfBoth(id, gpa.body.list, info.body.list)

\* Mutant of FetchOne: the info body is decoded before the gpa body.
FetchOneInfoFirst(id, gpa, info) ==
    IF gpa.st = "error" THEN Err(RequestError("gpa", id))
    ELSE IF info.st = "error" THEN Err(RequestError("info", id))
    ELSE IF ~info.body.parses THEN Err(DecodeError("info", id))
    ELSE IF ~gpa.body.parses THEN Err(DecodeError("gpa", id))
    ELSE FirstOfBoth(id, gpa.body.list, info.body.list)

\* The value of the async block once try_join! is ready.
FetchOne(id, gpa, info) ==
    IF gpa.st = "error" THEN Err(RequestError("gpa", id))
    ELSE IF info.st = "error" THEN Err(RequestError("info", id))
    ELSE IF ~gpa.body.parses THEN Err(DecodeError("gpa", id))
    ELSE IF ~info.body.parses THEN Err(DecodeError("info", id))
    ELSE FirstOfBoth(id, gpa.body.list, info.body.list)

\* Mutant of Collect: the values in the order the futures finished.
CollectAsCompleted(ts, order) == [j \in DOMAIN order |-> ts[order[j]].val]

\* try_join_all(fetch_futures) with every future Ok: the values in the order
\* of the futures.
Collect(ts, order) == [i \in DOMAIN ts |-> ts[i].val]

NoResult == [st |-> "none", val |-> <<>>, err |-> NoError]

(***************************************************************************)
(* Rule evaluation and the sort of main.                                   *)
(***************************************************************************)
\* Mutant of FlagMet: the upper bound is inclusive.
FlagMetInclusive(gpa, flag) ==
    /\ gpa.gpa_grade_reporting_total >= flag.min_gpa
    /\ gpa.gpa_grade_reporting_total <= flag.max_gpa

\* The filter closure of main: the flag is met by the GPA.
FlagMet(gpa, flag) ==
    /\ gpa.gpa_grade_reporting_total >= flag.min_gpa
    /\ gpa.gpa_grade_reporting_total < flag.max_gpa

\* Mutant of FlagsMet: only the first flag that is met (find for filter).
FirstFlagMet(gpa, flags) ==
    LET met == SelectSeq([j \in DOMAIN flags |-> j], LAMBDA j : FlagMet(gpa, flags[j]))
    IN  IF met = <<>> THEN <<>> ELSE <<met[1]>>

\* timed_report.flags.iter().filter(..).collect(): a &Flag is the index of
\* the flag in timed_report.flags.
FlagsMet(gpa, flags) ==
    SelectSeq([j \in DOMAIN flags |-> j], LAMBDA j : FlagMet(gpa, flags[j]))

SetMax(S) == CHOOSE x \in S : \A y \in S : y <= x

\* a.2.iter().map(|flag| flag.priority).max().unwrap_or(0)
HighestPriority(flags_met, flags) ==
    IF flags_met = <<>> THEN 0
    ELSE SetMax({flags[flags_met[j]].priority : j \in DOMAIN flags_met})

\* Mutant of IsLess: equal priorities compare as Less too.
IsLessOrEqual(a, b, flags) == HighestPriority(b[3], flags) <= HighestPriority(a[3], flags)

\* The comparator of sort_by, b_priority.cmp(&a_priority), says Less.
IsLess(a, b, flags) == HighestPriority(b[3], flags) < HighestPriority(a[3], flags)

\* slice::sort_by is a stable sort: every element is moved left past the
\* elements it is Less than.
RECURSIVE InsertTail(_, _, _)
InsertTail(s, x, flags) ==
    IF s = <<>> \/ ~IsLess(x, s[Len(s)], flags)
    THEN Append(s, x)
    ELSE Append(InsertTail(SubSeq(s, 1, Len(s) - 1), x, flags), s[Len(s)])

RECURSIVE SortBy(_, _)
SortBy(s, flags) ==
    IF s = <<>> THEN <<>>
    ELSE InsertTail(SortBy(SubSeq(s, 1, Len(s) - 1), flags), s[Len(s)], flags)

\* The RenderableStudent of one sorted entry.
Renderable(entry, flags) ==
    [full_name |-> <<entry[1].first_name, " ", entry[1].last_name>>,
     gpa |-> entry[2].gpa_grade_reporting_total,
     flags |-> [j \in DOMAIN entry[3] |-> flags[entry[3][j]].level]]

(***************************************************************************)
(* Rendering and the output file.  The template engine is external: the    *)
(* rendered text is the template applied to the globals.                   *)
(***************************************************************************)
NoText == [template |-> "", name |-> "", students |-> <<>>]
render_template(template_name, name, students) ==
    [template |-> template_name, name |-> name, students |-> students]

FileName(template) == <<template, ".html">>
FileNames == {FileName(t) : t \in Templates}

NoFile == [kind |-> "absent", text |-> NoText]
StaleFile == [kind |-> "stale", text |-> NoText]
EmptyFile == [kind |-> "empty", text |-> NoText]
PartialFile == [kind |-> "partial", text |-> NoText]
WrittenFile(text) == [kind |-> "written", text |-> text]

(***************************************************************************)
(* main: the loop over config.timed_reports.                               *)
(***************************************************************************)
timed_report == config[k]

\* The requests of the futures of ids, in the order they are first polled:
\* per student the gpa request, then the info request.
RequestsOf(report, ids) ==
    [j \in 1..(2 * Len(ids)) |->
        [report |-> report, entry |-> (j + 1) \div 2,
         url |-> get_urls_for_id(ids[(j + 1) \div 2])[IF j % 2 = 1 THEN 1 ELSE 2]]]

\* Mutant of StartFetch: only the first future is polled, the requests of the
\* others wait for it (a buffered(1) for try_join_all).
StartFetchOneByOne ==
    /\ pc = "loop"
    /\ k <= Len(config)
    /\ LET ids == timed_report.student_ids
           Queued(url) == [Inflight(url) EXCEPT !.st = "queued"]
       IN
        /\ reqs' = [i \in DOMAIN ids |->
                        IF i = 1
                        THEN [gpa |-> Inflight(get_urls_for_id(ids[i])[1]),
                              info |-> Inflight(get_urls_for_id(ids[i])[2])]
                        ELSE [gpa |-> Queued(get_urls_for_id(ids[i])[1]),
                              info |-> Queued(get_urls_for_id(ids[i])[2])]]
        /\ tasks' = [i \in DOMAIN ids |-> Pending]
        /\ issued' = issued \o RequestsOf(k, IF ids = <<>> THEN <<>> ELSE <<ids[1]>>)
    /\ completed' = <<>>
    /\ pc' = "fetch"
    /\ UNCHANGED <<config, db, remote, files, k, results, student_flags,
                   renderable_students, rendered_template, documents>>

\* Mutant of StartFetch: the requests of the next timed report are sent with
\* those of this one (the reports run concurrently).
StartFetchAhead ==
    /\ pc = "loop"
    /\ k <= Len(config)
    /\ LET ids == timed_report.student_ids IN
        /\ reqs' = [i \in DOMAIN ids |->
                        [gpa |-> Inflight(get_urls_for_id(ids[i])[1]),
                         info |-> Inflight(get_urls_for_id(ids[i])[2])]]
        /\ tasks' = [i \in DOMAIN ids |-> Pending]
        /\ issued' = issued \o RequestsOf(k, ids)
                        \o (IF k < Len(config)
                            THEN RequestsOf(k + 1, config[k + 1].student_ids)
                            ELSE <<>>)
    /\ completed' = <<>>
    /\ pc' = "fetch"
    /\ UNCHANGED <<config, db, remote, files, k, results, student_flags,
                   renderable_students, rendered_template, documents>>

\* fetch_students_gpa_and_info is called and try_join_all polls every future
\* for the first time: each sends its two requests.
StartFetch ==
    /\ pc = "loop"
    /\ k <= Len(config)
    /\ LET ids == timed_report.student_ids IN
        /\ reqs' = [i \in DOMAIN ids |->
                        [gpa |-> Inflight(get_urls_for_id(ids[i])[1]),
                         info |-> Inflight(get_urls_for_id(ids[i])[2])]]
        /\ tasks' = [i \in DOMAIN ids |-> Pending]
        /\ issued' = issued \o RequestsOf(k, ids)
    /\ completed' = <<>>
    /\ pc' = "fetch"
    /\ UNCHANGED <<config, db, remote, files, k, results, student_flags,
                   renderable_students, rendered_template, documents>>

\* The remote answers one request that is in flight, or its transport fails.
Respond(i, which, b) ==
    /\ pc = "fetch"
    /\ tasks[i].st = "pending"
    /\ reqs[i][which].st = "inflight"
    /\ reqs' = [reqs EXCEPT ![i][which] = Outcome(@.url, b)]
    /\ UNCHANGED <<config, db, remote, files, pc, k, tasks, completed, results,
                   student_flags, renderable_students, rendered_template, issued,
                   documents>>

\* try_join_all polls its futures in order: future i is the first that can
\* make progress.
NextToPoll(i) ==
    /\ tasks[i].st = "pending"
    /\ TryJoinReady(reqs[i].gpa, reqs[i].info)
    /\ \A j \in DOMAIN tasks :
          j < i => ~(tasks[j].st = "pending" /\ TryJoinReady(reqs[j].gpa, reqs[j].info))

FetchOf(i) == FetchOne(timed_report.student_ids[i], reqs[i].gpa, reqs[i].info)

\* The future of student i finishes with Ok.
TaskOk(i) ==
    /\ pc = "fetch"
    /\ NextToPoll(i)
    /\ FetchOf(i).st = "ok"
    /\ tasks' = [tasks EXCEPT ![i] = FetchOf(i)]
    /\ completed' = Append(completed, i)
    /\ UNCHANGED <<config, db, remote, files, pc, k, reqs, results, student_flags,
                   renderable_students, rendered_template, issued, documents>>

\* Mutant of TaskErr: the error stays with its future and the batch goes on
\* (join_all for try_join_all).
TaskErrKept(i) ==
    /\ pc = "fetch"
    /\ NextToPoll(i)
    /\ FetchOf(i).st = "err"
    /\ tasks' = [tasks EXCEPT ![i] = FetchOf(i)]
    /\ completed' = Append(completed, i)
    /\ UNCHANGED <<config, db, remote, files, pc, k, reqs, results, student_flags,
                   renderable_students, rendered_template, issued, documents>>

\* Mutant of TaskErr: the error is returned and main panics, but the other
\* futures and their requests are left running (fetches spawned as tasks).
TaskErrDetached(i) ==
    /\ pc = "fetch"
    /\ NextToPoll(i)
    /\ FetchOf(i).st = "err"
    /\ tasks' = [tasks EXCEPT ![i] = FetchOf(i)]
    /\ completed' = Append(completed, i)
    /\ results' = Err(FetchOf(i).err)
    /\ pc' = "panicked"
    /\ UNCHANGED <<config, db, remote, files, k, reqs, student_flags,
                   renderable_students, rendered_template, issued, documents>>

\* Mutant of TaskErr: a failed fetch sends its two requests again.
TaskErrRetry(i) ==
    /\ pc = "fetch"
    /\ NextToPoll(i)
    /\ FetchOf(i).st = "err"
    /\ reqs' = [reqs EXCEPT ![i] = [gpa |-> Inflight(reqs[i].gpa.url),
                                    info |-> Inflight(reqs[i].info.url)]]
    /\ issued' = issued \o <<[report |-> k, entry |-> i, url |-> reqs[i].gpa.url],
                              [report |-> k, entry |-> i, url |-> reqs[i].info.url]>>
    /\ UNCHANGED <<config, db, remote, files, pc, k, tasks, completed, results,
                   student_flags, renderable_students, rendered_template, documents>>

\* The future of student i finishes with Err: try_join_all returns the error
\* and drops the other futures with their requests, and the unwrap of main
\* panics.
TaskErr(i) ==
    /\ pc = "fetch"
    /\ NextToPoll(i)
    /\ FetchOf(i).st = "err"
    /\ tasks' = [j \in DOMAIN tasks |->
                    IF j = i THEN FetchOf(i)
                    ELSE IF tasks[j].st = "pending" THEN Dropped ELSE tasks[j]]
    /\ reqs' = [j \in DOMAIN reqs |->
                   [gpa |-> Cancelled(reqs[j].gpa), info |-> Cancelled(reqs[j].info)]]
    /\ completed' = Append(completed, i)
    /\ results' = Err(FetchOf(i).err)
    /\ pc' = "panicked"
    /\ UNCHANGED <<config, db, remote, files, k, student_flags, renderable_students,
                   rendered_template, issued, documents>>

\* Every future is Ok: try_join_all returns the Vec and the unwrap of main
\* yields it.
JoinAll ==
    /\ pc = "fetch"
    /\ \A i \in DOMAIN tasks : tasks[i].st = "ok"
    /\ results' = Ok(Collect(tasks, completed))
    /\ pc' = "evaluate"
    /\ UNCHANGED <<config, db, remote, files, k, reqs, tasks, completed, student_flags,
                   renderable_students, rendered_template, issued, documents>>

\* Mutant of Evaluate: the pairs are taken in the order the fetches finished
\* (a FuturesUnordered for try_join_all).
EvaluateAsCompleted ==
    /\ pc = "evaluate"
    /\ student_flags' =
          [j \in DOMAIN completed |->
              <<results.val[completed[j]][1], results.val[completed[j]][2],
                FlagsMet(results.val[completed[j]][2], timed_report.flags)>>]
    /\ pc' = "sort"
    /\ UNCHANGED <<config, db, remote, files, k, reqs, tasks, completed, results,
                   renderable_students, rendered_template, issued, documents>>

\* .into_iter().map(|(name, gpa)| ..).collect()
Evaluate ==
    /\ pc = "evaluate"
    /\ student_flags' =
          [i \in DOMAIN results.val |->
              <<results.val[i][1], results.val[i][2],
                FlagsMet(results.val[i][2], timed_report.flags)>>]
    /\ pc' = "sort"
    /\ UNCHANGED <<config, db, remote, files, k, reqs, tasks, completed, results,
                   renderable_students, rendered_template, issued, documents>>

\* student_flags.sort_by(..)
Sort ==
    /\ pc = "sort"
    /\ student_flags' = SortBy(student_flags, timed_report.flags)
    /\ pc' = "build"
    /\ UNCHANGED <<config, db, remote, files, k, reqs, tasks, completed, results,
                   renderable_students, rendered_template, issued, documents>>

\* Mutant of Build: only the students that met a flag are pushed.
BuildFlagged ==
    /\ pc = "build"
    /\ renderable_students' =
          LET met == SelectSeq(student_flags, LAMBDA e : e[3] # <<>>)
          IN  [i \in DOMAIN met |-> Renderable(met[i], timed_report.flags)]
    /\ pc' = "render"
    /\ UNCHANGED <<config, db, remote, files, k, reqs, tasks, completed, results,
                   student_flags, rendered_template, issued, documents>>

\* The loop that pushes one RenderableStudent per entry of student_flags.
Build ==
    /\ pc = "build"
    /\ renderable_students' =
          [i \in DOMAIN student_flags |-> Renderable(student_flags[i], timed_report.flags)]
    /\ pc' = "render"
    /\ UNCHANGED <<config, db, remote, files, k, reqs, tasks, completed, results,
                   student_flags, rendered_template, issued, documents>>

\* render_template(..).await.unwrap() yields the text.
RenderOk ==
    /\ pc = "render"
    /\ rendered_template' =
          render_template(timed_report.template, "Mr. Smith", renderable_students)
    /\ documents' = Append(documents, rendered_template')
    /\ pc' = "create"
    /\ UNCHANGED <<config, db, remote, files, k, reqs, tasks, completed, results,
                   student_flags, renderable_students, issued>>

\* The template is missing or invalid: render_template fails and main panics.
RenderFail ==
    /\ pc = "render"
    /\ pc' = "panicked"
    /\ UNCHANGED <<config, db, remote, files, k, reqs, tasks, completed, results,
                   student_flags, renderable_students, rendered_template, issued,
                   documents>>

\* File::create(..).unwrap(): the file exists and is empty.
CreateOk ==
    /\ pc = "create"
    /\ files' = [files EXCEPT ![FileName(timed_report.template)] = EmptyFile]
    /\ pc' = "write"
    /\ UNCHANGED <<config, db, remote, k, reqs, tasks, completed, results,
                   student_flags, renderable_students, rendered_template, issued,
                   documents>>

\* File::create fails and main panics.
CreateFail ==
    /\ pc = "create"
    /\ pc' = "panicked"
    /\ UNCHANGED <<config, db, remote, files, k, reqs, tasks, completed, results,
                   student_flags, renderable_students, rendered_template, issued,
                   documents>>

\* file.write_all(..).unwrap() succeeds; the iteration ends, its locals are
\* dropped and the loop goes to the next timed report.
WriteOk ==
    /\ pc = "write"
    /\ files' = [files EXCEPT ![FileName(timed_report.template)] =
                                 WrittenFile(rendered_template)]
    /\ k' = k + 1
    /\ pc' = "loop"
    /\ reqs' = <<>>
    /\ tasks' = <<>>
    /\ completed' = <<>>
    /\ results' = NoResult
    /\ student_flags' = <<>>
    /\ renderable_students' = <<>>
    /\ rendered_template' = NoText
    /\ UNCHANGED <<config, db, remote, issued, documents>>

\* write_all fails after writing none or some of the bytes, and main panics.
WriteFail ==
    /\ pc = "write"
    /\ \E f \in {EmptyFile, PartialFile} :
          files' = [files EXCEPT ![FileName(timed_report.template)] = f]
    /\ pc' = "panicked"
    /\ UNCHANGED <<config, db, remote, k, reqs, tasks, completed, results,
                   student_flags, renderable_students, rendered_template, issued,
                   documents>>

\* The loop has gone through every timed report: main returns.
Exit ==
    /\ pc = "loop"
    /\ k > Len(config)
    /\ pc' = "done"
    /\ UNCHANGED <<config, db, remote, files, k, reqs, tasks, completed, results,
                   student_flags, renderable_students, rendered_template, issued,
                   documents>>

(***************************************************************************)
(* Specifications.                                                         *)
(***************************************************************************)
\* The state of main when it enters the loop.
AtLoop ==
    /\ pc = "loop"
    /\ k = 1
    /\ reqs = <<>>
    /\ tasks = <<>>
    /\ completed = <<>>
    /\ results = NoResult
    /\ student_flags = <<>>
    /\ renderable_students = <<>>
    /\ rendered_template = NoText
    /\ issued = <<>>
    /\ documents = <<>>

\* The pipeline over up to MaxReports timed reports; the remote answers with
\* its record or the transport fails; the output files may exist before the
\* run.
Init ==
    /\ config \in SeqsOf({TimedReport(t, DefaultFlags, s) :
                             t \in Templates, s \in ReportIdLists}, 1, MaxReports)
    /\ db = [id \in Ids |-> id]
    /\ remote = BasicBehaviours
    /\ files \in [FileNames -> {NoFile, StaleFile}]
    /\ AtLoop

Next ==
    \/ StartFetch
    \/ \E i \in DOMAIN reqs : \E which \in {"gpa", "info"} : \E b \in remote :
          Respond(i, which, b)
    \/ \E i \in DOMAIN tasks : TaskOk(i)
    \/ \E i \in DOMAIN tasks : TaskErr(i)
    \/ JoinAll
    \/ Evaluate
    \/ Sort
    \/ Build
    \/ RenderOk
    \/ RenderFail
    \/ CreateOk
    \/ CreateFail
    \/ WriteOk
    \/ WriteFail
    \/ Exit

Spec == Init /\ [][Next]_vars

\* The flags of the timed report in SpecBatch: the rules of the scenario
\* (every student meets one, of its own priority), or a single rule that no
\* student meets (the students tie).
BatchFlagLists == {DefaultFlags, <<Flag(0, 1, 1, "low")>>}

\* One timed report of up to MaxIds students.
InitBatch ==
    /\ config \in {<<TimedReport("weekly", fl, s)>> :
                      fl \in BatchFlagLists, s \in SeqsOf(Ids, 0, MaxIds)}
    /\ db = [id \in Ids |-> id]
    /\ remote = BasicBehaviours
    /\ files = [f \in FileNames |-> NoFile]
    /\ AtLoop

SpecBatch == InitBatch /\ [][Next]_vars

\* One timed report of up to MaxFetchIds students; the remote answers in
\* every way it can.
InitFetch ==
    /\ config \in {<<TimedReport("weekly", DefaultFlags, s)>> :
                      s \in SeqsOf(Ids, 1, MaxFetchIds)}
    /\ db = [id \in Ids |-> id]
    /\ remote = AllBehaviours
    /\ files = [f \in FileNames |-> NoFile]
    /\ AtLoop

SpecFetch == InitFetch /\ [][Next]_vars

\* Rule evaluation, sort and assembly of one timed report, from the state of
\* main in which the fetch of students 1..n has returned their records: every
\* list of up to MaxFlags flags and every GPA of every student.
FlagChoices ==
    {Flag(lo, hi, p, "level") : lo \in Gpas, hi \in Gpas, p \in Priorities}

FlagLists == UNION {[1..m -> {f \in FlagChoices : f.min_gpa < f.max_gpa}] : m \in 0..MaxFlags}

\* The flags of a configuration carry distinct levels.
Labelled(fl) == [j \in DOMAIN fl |-> [fl[j] EXCEPT !.level = <<"level", j>>]]

InitAssemble ==
    /\ \E n \in 0..MaxStudents : \E fl \in FlagLists :
          /\ config = <<TimedReport("weekly", Labelled(fl), [i \in 1..n |-> i])>>
          /\ db \in [1..n -> Gpas]
    /\ remote = BasicBehaviours
    /\ files = [f \in FileNames |-> NoFile]
    /\ k = 1
    /\ LET ids == config[1].student_ids IN
        /\ reqs = [i \in DOMAIN ids |->
                       [gpa |-> Outcome(get_urls_for_id(ids[i])[1], Answer(200, "one")),
                        info |-> Outcome(get_urls_for_id(ids[i])[2], Answer(200, "one"))]]
        /\ tasks = [i \in DOMAIN ids |-> FetchOne(ids[i], reqs[i].gpa, reqs[i].info)]
        /\ completed = [i \in DOMAIN ids |-> i]
        /\ issued = RequestsOf(1, ids)
    /\ results = Ok(Collect(tasks, completed))
    /\ pc = "evaluate"
    /\ student_flags = <<>>
    /\ renderable_students = <<>>
    /\ rendered_template = NoText
    /\ documents = <<>>

NextAssemble == Evaluate \/ Sort \/ Build

SpecAssemble == InitAssemble /\ [][NextAssemble]_vars

(***************************************************************************)
(* Properties.                                                             *)
(***************************************************************************)
ids_of_batch == timed_report.student_ids

\* The record a parsed response carries first.
FirstRecord(req) == req.body.list[1]

\* C1: when every fetch succeeds, fetch_students_gpa_and_info returns one
\* (identity, score) pair per entry of the identifier list, and the pair at
\* position i is made of the two records received for the requests of the
\* identifier at position i, in whatever order the fetches finished.
C1_InputOrder ==
    results.st = "ok" =>
        /\ Len(results.val) = Len(ids_of_batch)
        /\ \A i \in DOMAIN ids_of_batch :
              /\ reqs[i].gpa.url = get_urls_for_id(ids_of_batch[i])[1]
              /\ reqs[i].info.url = get_urls_for_id(ids_of_batch[i])[2]
              /\ results.val[i] = <<FirstRecord(reqs[i].info), FirstRecord(reqs[i].gpa)>>

\* C1 witness: two different students, the second finished first, and the
\* fetch has returned.
C1_Witness ==
    /\ results.st = "ok"
    /\ completed = <<2, 1>>
    /\ ids_of_batch[1] # ids_of_batch[2]

\* C2: if a fetch of the batch fails, fetch_students_gpa_and_info returns an
\* error and main panics; it returns a list only when every fetch succeeded
\* (no request failed) and then one pair per identifier; rule evaluation,
\* sort and rendering run only on a returned list.
C2_AllOrNothing ==
    /\ (\E i \in DOMAIN tasks : tasks[i].st = "err") =>
            /\ results.st = "err"
            /\ pc = "panicked"
    /\ results.st = "ok" =>
            /\ Len(results.val) = Len(ids_of_batch)
            /\ \A i \in DOMAIN tasks :
                  /\ tasks[i].st = "ok"
                  /\ reqs[i].gpa.st = "response"
                  /\ reqs[i].info.st = "response"
    /\ pc \in {"evaluate", "sort", "build", "render", "create", "write"} => results.st = "ok"
    /\ results.st # "ok" =>
            /\ student_flags = <<>>
            /\ renderable_students = <<>>
            /\ rendered_template = NoText
            /\ Len(documents) = k - 1

\* C2 witness: the first of two fetches succeeded, the second failed, and
\* the call returned the error.
C2_Witness ==
    /\ Len(tasks) = 2
    /\ tasks[1].st = "ok"
    /\ tasks[2].st = "err"
    /\ results.st = "err"

\* The GPA lies in the half-open interval of the flag.
InInterval(s, flag) == flag.min_gpa <= s /\ s < flag.max_gpa

\* The flags of the timed report whose interval holds the GPA s, and the
\* highest priority among them (0 when there is none).
Matching(s) == {j \in DOMAIN timed_report.flags : InInterval(s, timed_report.flags[j])}

SortKey(s) ==
    IF Matching(s) = {} THEN 0
    ELSE CHOOSE p \in {timed_report.flags[j].priority : j \in Matching(s)} :
             \A j \in Matching(s) : timed_report.flags[j].priority <= p

Evaluated == pc \in {"sort", "build", "render", "create", "write"}

\* C3: a flag is among the flags met by a student if and only if the
\* student's GPA is >= its min_gpa and < its max_gpa.
C3_HalfOpen ==
    Evaluated =>
        \A i \in DOMAIN student_flags : \A j \in DOMAIN timed_report.flags :
            (j \in Range(student_flags[i][3]))
                <=> (/\ student_flags[i][2].gpa_grade_reporting_total
                            >= timed_report.flags[j].min_gpa
                     /\ student_flags[i][2].gpa_grade_reporting_total
                            < timed_report.flags[j].max_gpa)

\* C3 witness: a flag with a non-empty interval, a student whose GPA is its
\* max_gpa and does not meet it, and a student whose GPA is its min_gpa and
\* meets it.
C3_Witness ==
    /\ Evaluated
    /\ \E j \in DOMAIN timed_report.flags : \E a, b \in DOMAIN student_flags :
          /\ timed_report.flags[j].min_gpa < timed_report.flags[j].max_gpa
          /\ student_flags[a][2].gpa_grade_reporting_total = timed_report.flags[j].max_gpa
          /\ j \notin Range(student_flags[a][3])
          /\ student_flags[b][2].gpa_grade_reporting_total = timed_report.flags[j].min_gpa
          /\ j \in Range(student_flags[b][3])

\* C4: the flags of every rendered record are the levels of the flags whose
\* interval holds the record's GPA, one per such flag, in the order of the
\* configured flags.
C4_FlagsOfRecord ==
    pc \in {"render", "create", "write"} =>
        \A i \in DOMAIN renderable_students :
            LET r == renderable_students[i]
                M == Matching(r.gpa)
            IN  /\ Len(r.flags) = Cardinality(M)
                /\ \A j \in M :
                      r.flags[Cardinality({m \in M : m < j}) + 1] = timed_report.flags[j].level

\* C4 witness: a rendered record with the levels of two overlapping flags,
\* the flag of lower priority first as in the configuration.
C4_Witness ==
    /\ pc = "render"
    /\ Len(timed_report.flags) = 2
    /\ \E i \in DOMAIN renderable_students :
          /\ renderable_students[i].flags = <<timed_report.flags[1].level,
                                               timed_report.flags[2].level>>
          /\ timed_report.flags[1].priority < timed_report.flags[2].priority

\* The position in the identifier list of the student of a sorted entry (in
\* SpecAssemble the identifier list is 1..n, and the remote names student id
\* after id).
InputPosition(entry) == entry[1].first_name[2]

\* C5: the sorted records are the records of the identifier list, ordered by
\* sort key descending, records of equal sort key (0 for no flag met) in the
\* order of the identifier list.
C5_StableSort ==
    pc \in {"build", "render"} =>
        /\ Len(student_flags) = Len(ids_of_batch)
        /\ {InputPosition(student_flags[p]) : p \in DOMAIN student_flags}
               = DOMAIN ids_of_batch
        /\ \A p \in DOMAIN student_flags :
              student_flags[p][2].gpa_grade_reporting_total
                  = db[ids_of_batch[InputPosition(student_flags[p])]]
        /\ \A p, q \in DOMAIN student_flags :
              p < q =>
                LET kp == SortKey(student_flags[p][2].gpa_grade_reporting_total)
                    kq == SortKey(student_flags[q][2].gpa_grade_reporting_total)
                IN  /\ kp >= kq
                    /\ kp = kq =>
                          InputPosition(student_flags[p]) < InputPosition(student_flags[q])

\* C5 witness: students 1 and 2 have key 5 and student 3 has key 9; the
\* sorted order is 3, 1, 2.
C5_Witness ==
    /\ pc = "build"
    /\ Len(student_flags) = 3
    /\ [p \in 1..3 |-> InputPosition(student_flags[p])] = <<3, 1, 2>>
    /\ [p \in 1..3 |-> SortKey(student_flags[p][2].gpa_grade_reporting_total)] = <<9, 5, 5>>

Finished(i) == tasks[i].st \in {"ok", "err"}

\* C6: a finished fetch is Ok if and only if both of its requests got a
\* response, both bodies parse as a list and both lists are non-empty; the
\* pair of an Ok fetch is the first record of the info list and the first
\* record of the gpa list, whatever follows them.
C6_FetchSucceeds ==
    \A i \in DOMAIN tasks :
        Finished(i) =>
            /\ tasks[i].st = "ok" <=>
                  /\ reqs[i].gpa.st = "response"
                  /\ reqs[i].info.st = "response"
                  /\ reqs[i].gpa.body.parses
                  /\ reqs[i].info.body.parses
                  /\ Len(reqs[i].gpa.body.list) > 0
                  /\ Len(reqs[i].info.body.list) > 0
            /\ tasks[i].st = "ok" =>
                  tasks[i].val = <<reqs[i].info.body.list[1], reqs[i].gpa.body.list[1]>>

\* C6 witness: an Ok fetch whose two lists hold two different records each.
C6_Witness ==
    \E i \in DOMAIN tasks :
        /\ tasks[i].st = "ok"
        /\ Len(reqs[i].gpa.body.list) = 2
        /\ Len(reqs[i].info.body.list) = 2
        /\ reqs[i].gpa.body.list[1] # reqs[i].gpa.body.list[2]
        /\ reqs[i].info.body.list[1] # reqs[i].info.body.list[2]

\* A request of fetch i was answered with a status other than 200.
Non200(i) ==
    \/ reqs[i].gpa.st = "response" /\ reqs[i].gpa.status # 200
    \/ reqs[i].info.st = "response" /\ reqs[i].info.status # 200

\* C7: a fetch with a request answered by a non-200 status does not finish
\* Ok, the call returns no list and no text is rendered for the report.
C7_Non200Fails ==
    \A i \in DOMAIN tasks :
        Non200(i) =>
            /\ tasks[i].st # "ok"
            /\ results.st # "ok"
            /\ Len(documents) = k - 1

\* The three kinds of error of a fetch.
IsNetwork(e) == e.type = "reqwest::Error" /\ e.kind = "Request"
IsDecode(e) == e.type = "reqwest::Error" /\ e.kind = "Decode"
IsNotFound(e) == e.type = "String"

TransportFailed(i) == reqs[i].gpa.st = "error" \/ reqs[i].info.st = "error"
BodyUnparsable(i) ==
    \/ reqs[i].gpa.st = "response" /\ ~reqs[i].gpa.body.parses
    \/ reqs[i].info.st = "response" /\ ~reqs[i].info.body.parses
ListEmpty(i) ==
    \/ reqs[i].gpa.st = "response" /\ reqs[i].gpa.body.parses /\ reqs[i].gpa.body.list = <<>>
    \/ reqs[i].info.st = "response" /\ reqs[i].info.body.parses /\ reqs[i].info.body.list = <<>>

WritersBefore(f, n) == {j \in 1..(n - 1) : FileName(config[j].template) = f}
LastWriterBefore(f, n) ==
    CHOOSE j \in WritersBefore(f, n) : \A m \in WritersBefore(f, n) : m <= j

\* The file f is as the reports before report n left it: the text of the
\* last of them that wrote it, or what it was before the run.
AsLeftBefore(f, n) ==
    IF WritersBefore(f, n) = {}
    THEN files[f] \in {NoFile, StaleFile}
    ELSE files[f] = WrittenFile(documents[LastWriterBefore(f, n)])

\* The step of report k at which main panicked.
FailedAt ==
    IF results.st = "err" THEN "fetch"
    ELSE IF rendered_template = NoText THEN "render"
    ELSE IF files[FileName(timed_report.template)].kind \in {"empty", "partial"} THEN "write"
    ELSE "create"

\* What C9 says of the process and of the reports from k on: the process has
\* stopped, no request was sent and no text rendered for a report after k,
\* and the file of report k is untouched by a failed fetch or render and
\* holds no rendered text after a failed write.
StopsAtFailure ==
    /\ ~ENABLED Next
    /\ k \in DOMAIN config
    /\ \A j \in DOMAIN issued : issued[j].report <= k
    /\ Len(documents) <= k
    /\ FailedAt \in {"fetch", "render"} =>
            /\ Len(documents) = k - 1
            /\ AsLeftBefore(FileName(timed_report.template), k)
    /\ FailedAt = "write" => files[FileName(timed_report.template)].kind # "written"

\* C9: after a failure of report k the process has stopped as
\* above and every document written for a report before k is left as
\* written.
C9_EarlierDocumentsKept ==
    pc = "panicked" =>
        /\ StopsAtFailure
        /\ \A j \in 1..(k - 1) : AsLeftBefore(FileName(config[j].template), k)

\* What holds of the code in place of C9: after a failure of report k the
\* process has stopped as above and every file is as the reports before k left
\* it, except the file of k's own template after a failed write.
FailureStops ==
    pc = "panicked" =>
        /\ StopsAtFailure
        /\ \A f \in FileNames :
              (FailedAt = "write" /\ f = FileName(timed_report.template))
                  \/ AsLeftBefore(f, k)

\* The write of the second report failed, and the document of the first
\* report, of another template, is in its file.
FailureStopsWitness ==
    /\ pc = "panicked"
    /\ k = 2
    /\ FailedAt = "write"
    /\ config[1].template # config[2].template
    /\ files[FileName(config[1].template)] = WrittenFile(documents[1])
    /\ files[FileName(config[2].template)] = PartialFile

\* C10: after a run in which every report succeeded, the file of
\* every report holds the text rendered for that report.
C10_EveryDocumentInItsFile ==
    pc = "done" =>
        /\ Len(documents) = Len(config)
        /\ \A j \in DOMAIN config :
              files[FileName(config[j].template)] = WrittenFile(documents[j])

\* What holds of the code in place of C10: after a run in which every report
\* succeeded, a text was rendered for every report and the file of every
\* report holds the text of the last report of the same template.
LastDocumentInFile ==
    pc = "done" =>
        /\ Len(documents) = Len(config)
        /\ \A j \in DOMAIN config :
              /\ documents[j].template = config[j].template
              /\ AsLeftBefore(FileName(config[j].template), Len(config) + 1)
              /\ WritersBefore(FileName(config[j].template), Len(config) + 1)
                    = {m \in DOMAIN config : config[m].template = config[j].template}

\* Two reports of one template with different texts have succeeded, and the
\* file holds the text of the second.
LastDocumentInFileWitness ==
    /\ pc = "done"
    /\ Len(config) = 2
    /\ config[1].template = config[2].template
    /\ documents[1] # documents[2]
    /\ files[FileName(config[2].template)] = WrittenFile(documents[2])

\* The pair of records the remote holds for an identifier, and the rows
\* assembled from the pairs of an identifier list taken in the order of the
\* list: a function of the list, the flags and the records only.
FetchedPair(id) ==
    <<RemoteRecord(get_urls_for_id(id)[2]), RemoteRecord(get_urls_for_id(id)[1])>>

Assembled(ids, flags) ==
    LET evaluated == [i \in DOMAIN ids |->
                         <<FetchedPair(ids[i])[1], FetchedPair(ids[i])[2],
                           FlagsMet(FetchedPair(ids[i])[2], flags)>>]
        sorted == SortBy(evaluated, flags)
    IN  [i \in DOMAIN sorted |-> Renderable(sorted[i], flags)]

\* C11: the assembled rows of a report are a function of its identifier
\* list, its flags and the record fetched per identifier: in every run, in
\* whatever order the requests and fetches complete, the rows (names, GPAs,
\* flags and order) are the rows assembled from the list in its own order, so
\* two runs on the same data assemble the same rows.
C11_SameRowsInEveryRun ==
    pc \in {"render", "create", "write"} =>
        renderable_students = Assembled(ids_of_batch, timed_report.flags)

\* C11 witness: two different students that tie in the sort, the second
\* fetch finished first, and the rows are in the order of the list.
C11_Witness ==
    /\ pc = "render"
    /\ ids_of_batch = <<1, 2>>
    /\ completed = <<2, 1>>
    /\ Len(renderable_students) = 2
    /\ renderable_students[1].flags = renderable_students[2].flags
    /\ renderable_students[1].gpa = db[1]
    /\ renderable_students[2].gpa = db[2]

\* The rows that carry the name of an identifier, and the entries of the
\* identifier list that hold it.
RowsOf(id) ==
    {p \in DOMAIN renderable_students :
        renderable_students[p].full_name = <<<<"first", id>>, " ", <<"last", id>>>>}
EntriesOf(id) == {i \in DOMAIN ids_of_batch : ids_of_batch[i] = id}

\* C12: on a report whose fetch succeeded there are as many evaluated,
\* sorted and assembled records as entries of the identifier list: an
\* identifier listed m times has m rows, and a student that meets no flag has
\* its row, with an empty list of flags.
C12_OneRowPerEntry ==
    /\ pc \in {"sort", "build", "render", "create", "write"} =>
            Len(student_flags) = Len(ids_of_batch)
    /\ pc \in {"render", "create", "write"} =>
            /\ Len(renderable_students) = Len(ids_of_batch)
            /\ \A id \in Ids : Cardinality(RowsOf(id)) = Cardinality(EntriesOf(id))
            /\ \A id \in Range(ids_of_batch) :
                  Matching(db[id]) = {} =>
                      \A p \in RowsOf(id) : renderable_students[p].flags = <<>>

\* C12 witness: an identifier listed twice that meets no flag has two rows
\* with no flags.
C12_Witness ==
    /\ pc = "render"
    /\ ids_of_batch = <<1, 1>>
    /\ Matching(db[1]) = {}
    /\ Len(renderable_students) = 2
    /\ renderable_students[1].flags = <<>>
    /\ renderable_students[2].flags = <<>>

\* The fetches of the batch other than the one that failed.
Siblings == {i \in DOMAIN tasks : tasks[i].st # "err"}

\* C13: after a fetch of the batch has failed, no request of a sibling
\* fetch is cancelled: it is still in flight or has completed.
C13_SiblingsRunOn ==
    results.st = "err" =>
        \A i \in Siblings :
            /\ reqs[i].gpa.st \in {"inflight", "response", "error"}
            /\ reqs[i].info.st \in {"inflight", "response", "error"}

\* C13 as amended: after a fetch of the batch has failed, the error is
\* returned, main panics and nothing runs on: every sibling fetch that had
\* not finished is dropped without a value, no request is in flight any more
\* (a request that had not completed is cancelled), and no further step is
\* taken.
C13_SiblingsAbandoned ==
    results.st = "err" =>
        /\ pc = "panicked"
        /\ ~ENABLED Next
        /\ \A i \in DOMAIN reqs :
              /\ reqs[i].gpa.st # "inflight"
              /\ reqs[i].info.st # "inflight"
        /\ \A i \in Siblings :
              /\ tasks[i].st \in {"ok", "dropped"}
              /\ tasks[i].st = "dropped" => tasks[i].val = NoPair
              /\ (reqs[i].gpa.st = "cancelled" \/ reqs[i].info.st = "cancelled")
                    => tasks[i].st = "dropped"

\* C13 witness: the second fetch failed while the first had received one
\* response and waited for the other: the first is dropped, its pending
\* request cancelled.
C13_Witness ==
    /\ results.st = "err"
    /\ Len(tasks) = 2
    /\ tasks[2].st = "err"
    /\ tasks[1].st = "dropped"
    /\ reqs[1].gpa.st = "response"
    /\ reqs[1].info.st = "cancelled"

\* A fetch that has not finished and whose failure is decided: a send()
\* failed, or both responses arrived and a body does not parse or a list is
\* empty.
FailedAlready(i) ==
    /\ tasks[i].st = "pending"
    /\ \/ reqs[i].gpa.st = "error"
       \/ reqs[i].info.st = "error"
       \/ /\ reqs[i].gpa.st = "response"
          /\ reqs[i].info.st = "response"
          /\ ~(/\ reqs[i].gpa.body.parses
               /\ reqs[i].info.body.parses
               /\ reqs[i].gpa.body.list # <<>>
               /\ reqs[i].info.body.list # <<>>)

\* A fetch that waits for a response (none of its requests failed).
StillWaiting(i) ==
    /\ tasks[i].st = "pending"
    /\ reqs[i].gpa.st # "error"
    /\ reqs[i].info.st # "error"
    /\ reqs[i].gpa.st = "inflight" \/ reqs[i].info.st = "inflight"

\* C14: a fetch whose failure is decided can return its error whenever every
\* earlier fetch of the batch has finished or is still in flight, whatever is
\* in flight elsewhere (also its own other request); the error of the
\* failed fetch is returned by the call in the step that detects it; and the
\* result is that error alone: it holds no list, there is one failed fetch,
\* and a fetch that was in flight at that moment is dropped without a value.
C14_FailFast ==
    /\ pc = "fetch" =>
          \A i \in DOMAIN tasks :
              (/\ FailedAlready(i)
               /\ \A j \in DOMAIN tasks : j < i => (tasks[j].st = "ok" \/ StillWaiting(j)))
                  => ENABLED TaskErr(i)
    /\ \A i \in DOMAIN tasks :
          tasks[i].st = "err" => (results = Err(tasks[i].err) /\ pc = "panicked")
    /\ results.st = "err" =>
          /\ results.val = NoPair
          /\ Cardinality({i \in DOMAIN tasks : tasks[i].st = "err"}) = 1
          /\ \A i \in DOMAIN tasks : tasks[i].st # "pending"
          /\ \A i \in Siblings :
                (reqs[i].gpa.st = "cancelled" \/ reqs[i].info.st = "cancelled")
                    => tasks[i] = Dropped

\* C14 witness: the second fetch failed on its first request while its
\* other request and both requests of the first fetch were in flight, and
\* the call has returned its error.
C14_Witness ==
    /\ Len(tasks) = 2
    /\ results = Err(tasks[2].err)
    /\ tasks[2].st = "err"
    /\ reqs[2].gpa.st = "error"
    /\ reqs[2].info.st = "cancelled"
    /\ tasks[1] = Dropped
    /\ reqs[1].gpa.st = "cancelled"
    /\ reqs[1].info.st = "cancelled"

\* The identity record and the score record are those the remote holds for
\* the identifier id.
IsPairOf(name, gpa, id) ==
    /\ name.first_name = <<"first", id>>
    /\ name.last_name = <<"last", id>>
    /\ gpa.gpa_grade_reporting_total = db[id]

\* C15: the two requests of the fetch of a list entry go to the gpas and
\* the students endpoint of that entry's identifier; the pair of a finished
\* fetch and of the returned list at position i is the identity and the score
\* of the identifier at position i; and every evaluated, sorted and assembled
\* row carries the name and the GPA of one and the same listed identifier.
C15_PairOfOneStudent ==
    /\ \A i \in DOMAIN reqs :
          /\ reqs[i].gpa.url = [endpoint |-> "gpas", id |-> ids_of_batch[i]]
          /\ reqs[i].info.url = [endpoint |-> "students", id |-> ids_of_batch[i]]
          /\ reqs[i].gpa.url # reqs[i].info.url
    /\ \A i \in DOMAIN tasks :
          tasks[i].st = "ok" => IsPairOf(tasks[i].val[1], tasks[i].val[2], ids_of_batch[i])
    /\ results.st = "ok" =>
          \A i \in DOMAIN results.val :
              IsPairOf(results.val[i][1], results.val[i][2], ids_of_batch[i])
    /\ \A p \in DOMAIN student_flags :
          \E id \in Range(ids_of_batch) : IsPairOf(student_flags[p][1], student_flags[p][2], id)
    /\ \A p \in DOMAIN renderable_students :
          \E id \in Range(ids_of_batch) :
              /\ renderable_students[p].full_name = <<<<"first", id>>, " ", <<"last", id>>>>
              /\ renderable_students[p].gpa = db[id]

\* C15 witness: two students with different GPAs; the score of the first and
\* the identity of the second arrived first, the second fetch finished first,
\* and the rows are assembled, the second student first.
C15_Witness ==
    /\ pc = "render"
    /\ ids_of_batch = <<1, 2>>
    /\ db[1] # db[2]
    /\ completed = <<2, 1>>
    /\ Len(renderable_students) = 2
    /\ renderable_students[1].full_name = <<<<"first", 2>>, " ", <<"last", 2>>>>
    /\ renderable_students[1].gpa = db[2]
    /\ renderable_students[2].full_name = <<<<"first", 1>>, " ", <<"last", 1>>>>
    /\ renderable_students[2].gpa = db[1]

\* The requests of fetch i that have been sent.
Started(i) ==
    {w \in {"gpa", "info"} : reqs[i][w].st \in {"inflight", "response", "error"}}

\* No request of the batch has been answered and no fetch has finished.
NothingBack ==
    /\ completed = <<>>
    /\ \A i \in DOMAIN reqs : \A w \in {"gpa", "info"} :
          reqs[i][w].st \notin {"response", "error"}

\* C16: while the batch is being fetched every fetch of the list has sent
\* both of its requests, none waiting for another fetch: 2N requests were
\* sent for the N entries, and as long as nothing has come back all 2N are in
\* flight.
C16_AllStartedAtOnce ==
    pc = "fetch" =>
        /\ Len(reqs) = Len(ids_of_batch)
        /\ \A i \in DOMAIN reqs : Started(i) = {"gpa", "info"}
        /\ Cardinality({j \in DOMAIN issued : issued[j].report = k}) = 2 * Len(ids_of_batch)
        /\ NothingBack =>
              \A i \in DOMAIN reqs :
                  reqs[i].gpa.st = "inflight" /\ reqs[i].info.st = "inflight"

\* C16 witness: a list of MaxIds entries and 2 * MaxIds requests in flight.
C16_Witness ==
    /\ pc = "fetch"
    /\ Len(ids_of_batch) = MaxIds
    /\ Cardinality({<<i, w>> \in (DOMAIN reqs) \X {"gpa", "info"} :
                        reqs[i][w].st = "inflight"}) = 2 * MaxIds

\* C17: every entry of the identifier list of a report has at most one
\* request per endpoint among the requests sent, also after a request or a
\* fetch has failed; a failed fetch ends the run, so nothing is sent after it.
C17_NoRetry ==
    /\ \A a, b \in DOMAIN issued :
          (/\ issued[a].report = issued[b].report
           /\ issued[a].entry = issued[b].entry
           /\ issued[a].url.endpoint = issued[b].url.endpoint) => a = b
    /\ \A i \in DOMAIN reqs :
          (reqs[i].gpa.st = "error" \/ reqs[i].info.st = "error" \/ tasks[i].st = "err")
              => Cardinality({j \in DOMAIN issued :
                                 issued[j].report = k /\ issued[j].entry = i}) = 2
    /\ (\E i \in DOMAIN tasks : tasks[i].st = "err") => ~ENABLED Next

\* C17 witness: a fetch failed on an empty list, and two requests were sent
\* in the run.
C17_Witness ==
    /\ pc = "panicked"
    /\ Len(issued) = 2
    /\ \E i \in DOMAIN tasks : tasks[i].st = "err" /\ IsNotFound(tasks[i].err)

\* C18: the requests sent so far are those of the reports up to the one
\* the loop is at, in the order of the reports; a request is in flight only
\* while the loop fetches, and it is a request of the report the loop is at;
\* and while requests of report k are out, the text of every report before k
\* has been rendered and the file of every report before k holds what the
\* reports before k wrote last.
C18_OneReportAtATime ==
    /\ \A j \in DOMAIN issued : issued[j].report <= k
    /\ \A a, b \in DOMAIN issued : a < b => issued[a].report <= issued[b].report
    /\ \A i \in DOMAIN reqs : \A w \in {"gpa", "info"} :
          reqs[i][w].st = "inflight" =>
              /\ pc = "fetch"
              /\ reqs[i][w].url.id = config[k].student_ids[i]
              /\ \E j \in DOMAIN issued :
                    issued[j] = [report |-> k, entry |-> i, url |-> reqs[i][w].url]
    /\ pc = "fetch" =>
          /\ Len(documents) = k - 1
          /\ \A r \in 1..(k - 1) : AsLeftBefore(FileName(config[r].template), k)

\* C18 witness: the loop fetches the second report with a request in
\* flight, and the document of the first report is in its file.
C18_Witness ==
    /\ pc = "fetch"
    /\ k = 2
    /\ \E i \in DOMAIN reqs : reqs[i].gpa.st = "inflight"
    /\ files[FileName(config[1].template)] = WrittenFile(documents[1])

\* C19: in the sorted and in the assembled order no student that met no
\* flag stands before a student that met a flag.
C19_UnmatchedLast ==
    /\ pc \in {"build", "render"} =>
          \A p, q \in DOMAIN student_flags :
              (p < q /\ student_flags[p][3] = <<>>) => student_flags[q][3] = <<>>
    /\ pc = "render" =>
          \A p, q \in DOMAIN renderable_students :
              (p < q /\ renderable_students[p].flags = <<>>)
                  => renderable_students[q].flags = <<>>

\* What holds of the code in place of C19: no student that met no flag
\* stands before a student that met a flag of priority above 0; a student
\* whose flags all have priority 0 ties with the students that met none and
\* keeps its place in the identifier list among them.
UnmatchedAfterPositive ==
    pc \in {"build", "render"} =>
        \A p, q \in DOMAIN student_flags :
            (p < q /\ student_flags[p][3] = <<>>) =>
                \/ student_flags[q][3] = <<>>
                \/ /\ SortKey(student_flags[q][2].gpa_grade_reporting_total) = 0
                   /\ InputPosition(student_flags[p]) < InputPosition(student_flags[q])

\* The first student met no flag and the second met a flag of priority 0,
\* and they are sorted in that order.
UnmatchedAfterPositiveWitness ==
    /\ pc = "build"
    /\ Len(student_flags) >= 2
    /\ student_flags[1][3] = <<>>
    /\ student_flags[2][3] # <<>>
    /\ InputPosition(student_flags[1]) = 1

\* C20: a failed fetch with a failed send() has the error of a send() (no
\* body was decoded); with both responses received and a gpa body that does
\* not parse it has the decode error of the gpa body, whatever the info body
\* is; with a gpa body that parses and an info body that does not, the decode
\* error of the info body, also when the gpa list is empty; and it has the
\* empty-list message only when both bodies parse.
C20_Precedence ==
    \A i \in DOMAIN tasks :
        tasks[i].st = "err" =>
            LET e == tasks[i].err
                gpa == reqs[i].gpa
                info == reqs[i].info
                both == gpa.st = "response" /\ info.st = "response"
            IN  /\ TransportFailed(i) => IsNetwork(e)
                /\ IsDecode(e) \/ IsNotFound(e) => both
                /\ (both /\ ~gpa.body.parses) => e = DecodeError("gpa", ids_of_batch[i])
                /\ (both /\ gpa.body.parses /\ ~info.body.parses)
                      => e = DecodeError("info", ids_of_batch[i])
                /\ IsNotFound(e) =>
                      /\ gpa.body.parses
                      /\ info.body.parses
                      /\ gpa.body.list = <<>> \/ info.body.list = <<>>
                /\ (ListEmpty(i) /\ BodyUnparsable(i) /\ ~TransportFailed(i)) => IsDecode(e)

\* C20 witness: the gpa list is empty and the info body does not parse, and
\* the fetch failed with the decode error of the info body.
C20_Witness ==
    \E i \in DOMAIN tasks :
        /\ tasks[i].st = "err"
        /\ reqs[i].gpa.st = "response"
        /\ reqs[i].gpa.body.parses
        /\ reqs[i].gpa.body.list = <<>>
        /\ reqs[i].info.st = "response"
        /\ ~reqs[i].info.body.parses
        /\ tasks[i].err = DecodeError("info", ids_of_batch[i])

====
